---- MODULE Spec2Model ----
(***************************************************************************)
(* calculate_map of luminoth/eval.py: mAP@iou_threshold from a detector's  *)
(* per-image output.  The function is modelled as a state machine whose    *)
(* initial state holds the arguments (output_per_batch, num_classes) and   *)
(* whose actions are the steps of the three loops of the function: the     *)
(* per-image / per-class greedy matching (lines 219-263), the per-class    *)
(* average precision (lines 267-302), the final mean (line 305) and the    *)
(* IPython shell the function opens on its last line (line 307), after     *)
(* which it returns None.                                                  *)
(*                                                                         *)
(* Numbers.  Scores and overlaps are kept in tenths (9 is 0.9).  Precision,*)
(* AP and mAP are exact rationals <<numerator, denominator>> in lowest     *)
(* terms; the code computes them in IEEE doubles.  The comparisons of      *)
(* recall with the eleven values of np.linspace(0, 1, 11) are modelled     *)
(* with the doubles linspace really produces (see FloatAbove).             *)
(***************************************************************************)
EXTENDS Integers, Sequences, FiniteSets, TLC

(***************************************************************************)
(* Bounds of the model.                                                    *)
(***************************************************************************)
MaxImages == 2      \* images (batches) in output_per_batch
MaxDets == 2        \* detections in the whole dataset
MaxGT == 3          \* ground-truth boxes in the whole dataset

NumClassesChoices == {1, 2}   \* values of the argument num_classes
Labels == {0, 1}              \* class labels found in the data; 1 is outside
                              \* [0, num_classes) when num_classes = 1
Scores == {8, 9}              \* confidence scores, in tenths
DetBoxes == {1, 2}            \* the bounding boxes of the detections
GTBoxes == {1, 3}             \* the bounding boxes of the ground truths

iou_threshold == 5            \* the default iou_threshold=0.5, in tenths
NumRecallPoints == 11         \* np.linspace(0, 1, 11)

(***************************************************************************)
(* bbox_overlaps, imported from luminoth/utils/bbox.py on line 12:         *)
(* the IoU of two boxes, in tenths.  The boxes of the model are three      *)
(* places 1, 2, 3: a box overlaps a box at the same place fully (1.0), one *)
(* at the next place at exactly 0.5, and one two places away at 0.3, below *)
(* the threshold.                                                          *)
(***************************************************************************)
Overlap(a, b) ==
    IF a = b THEN 10
    ELSE IF a - b = 1 \/ b - a = 1 THEN 5
    ELSE 3

bbox_overlaps(bboxes, gt_boxes) ==
    [i \in 1..Len(bboxes) |-> [j \in 1..Len(gt_boxes) |-> Overlap(bboxes[i], gt_boxes[j])]]

(***************************************************************************)
(* Rationals.                                                              *)
(***************************************************************************)
RECURSIVE GCD(_, _)
GCD(a, b) == IF b = 0 THEN a ELSE GCD(b, a % b)

Rat(n, d) == LET g == GCD(n, d) IN IF n = 0 THEN <<0, 1>> ELSE <<n \div g, d \div g>>
RatAdd(x, y) == Rat(x[1] * y[2] + y[1] * x[2], x[2] * y[2])
RatLeq(x, y) == x[1] * y[2] <= y[1] * x[2]
RatZero == <<0, 1>>
RatOne == <<1, 1>>

(***************************************************************************)
(* numpy helpers.                                                          *)
(***************************************************************************)
\* Positions i with classes[i] = c, in increasing order: the mask classes == c.
RECURSIVE MaskIndices(_, _, _)
MaskIndices(classes, c, i) ==
    IF i > Len(classes) THEN <<>>
    ELSE (IF classes[i] = c THEN <<i>> ELSE <<>>) \o MaskIndices(classes, c, i + 1)

\* arr[mask]: the entries of arr at the positions of the mask.
Take(arr, indices) == [k \in 1..Len(indices) |-> arr[indices[k]]]

\* np.argsort(-scores): the permutations of 1..Len(scores) that list the scores
\* in descending order.  The default sort kind is not stable, so every order of
\* equal scores is a possible result.
ArgsortDesc(scores) ==
    LET n == Len(scores) IN
    { p \in [1..n -> 1..n] :
        /\ \A i, j \in 1..n : i # j => p[i] # p[j]
        /\ \A i \in 1..n : i < n => scores[p[i]] >= scores[p[i + 1]] }

\* np.argmax(row): the first position of the maximum.
ArgMax(row) ==
    CHOOSE j \in 1..Len(row) :
        /\ \A k \in 1..Len(row) : row[k] <= row[j]
        /\ \A k \in 1..(j - 1) : row[k] < row[j]

\* np.concatenate of a sequence of arrays.
RECURSIVE Concatenate(_)
Concatenate(arrays) ==
    IF arrays = <<>> THEN <<>> ELSE Head(arrays) \o Concatenate(Tail(arrays))

RECURSIVE SumSeq(_)
SumSeq(s) == IF s = <<>> THEN 0 ELSE Head(s) + SumSeq(Tail(s))

\* np.cumsum
CumSum(s) == [k \in 1..Len(s) |-> SumSeq(SubSeq(s, 1, k))]

(***************************************************************************)
(* The arguments: output_per_batch as a sequence of images, each with the  *)
(* keys the function reads.                                                *)
(***************************************************************************)
Det == DetBoxes \X Labels \X Scores
GT == GTBoxes \X Labels

\* The ground truths of an image are distinct boxes, listed in ascending order.
GTLists(n) ==
    { g \in [1..n -> GT] : \A i \in 1..n : i < n => g[i][1] < g[i + 1][1] }

MkImage(d, g) ==
    [ bboxes |-> [i \in 1..Len(d) |-> d[i][1]],
      classes |-> [i \in 1..Len(d) |-> d[i][2]],
      scores |-> [i \in 1..Len(d) |-> d[i][3]],
      gt_bboxes |-> [i \in 1..Len(g) |-> g[i][1]],
      gt_classes |-> [i \in 1..Len(g) |-> g[i][2]] ]

ImagesWith(nd, ng) == { MkImage(d, g) : d \in [1..nd -> Det], g \in GTLists(ng) }

\* Every dataset of at most k images with at most d detections and g ground
\* truths in total.
RECURSIVE DataSets(_, _, _)
DataSets(k, d, g) ==
    IF k = 0 THEN {<<>>}
    ELSE {<<>>} \cup
         UNION { LET rests == DataSets(k - 1, d - c[1], g - c[2])
                 IN  { <<img>> \o rest : img \in ImagesWith(c[1], c[2]), rest \in rests } :
                 c \in (0..d) \X (0..g) }

Inputs == DataSets(MaxImages, MaxDets, MaxGT)

VARIABLES
    output_per_batch,        \* argument: the images
    num_classes,             \* argument
    pc,                      \* "images" | "match" | "ap" | "mean" | "embed" |
                             \* "done" | "error"
    idx,                     \* image of the outer loop, 1-based (line 219)
    cls,                     \* class of the inner loop (229) or of the AP loop (267)
    tp_fp_labels_by_class,   \* line 215
    num_examples_per_class,  \* line 216
    sorted_indices,          \* line 237
    pos,                     \* position of the greedy loop in sorted_indices (252)
    is_detected,             \* line 238
    tp_fp_labels,            \* line 239
    true_positives,          \* line 278, of the class last integrated
    ap_terms,                \* what each recall threshold did, of that class
    ap_per_class,            \* line 266
    mean_ap,                 \* line 305
    error,                   \* the exception that ended the call, or "none"
    returned                 \* what the call returned: "None", or "nothing" so far

vars == << output_per_batch, num_classes, pc, idx, cls, tp_fp_labels_by_class,
           num_examples_per_class, sorted_indices, pos, is_detected, tp_fp_labels,
           true_positives, ap_terms, ap_per_class, mean_ap, error, returned >>

Classes == 0..(num_classes - 1)
num_batches == Len(output_per_batch)

Init ==
    /\ output_per_batch \in Inputs
    /\ num_classes \in NumClassesChoices
    /\ pc = IF Len(output_per_batch) = 0 THEN "ap" ELSE "images"
    /\ idx = 1
    /\ cls = 0
    /\ tp_fp_labels_by_class = [c \in 0..(num_classes - 1) |-> <<>>]
    /\ num_examples_per_class = [c \in 0..(num_classes - 1) |-> 0]
    /\ sorted_indices = <<>>
    /\ pos = 1
    /\ is_detected = <<>>
    /\ tp_fp_labels = <<>>
    /\ true_positives = <<>>
    /\ ap_terms = <<>>
    /\ ap_per_class = [c \in 0..(num_classes - 1) |-> RatZero]
    /\ mean_ap = RatZero
    /\ error = "none"
    /\ returned = "nothing"

(***************************************************************************)
(* The slices of the current image for the current class (lines 221-234).  *)
(***************************************************************************)
image == output_per_batch[idx]
cls_mask == MaskIndices(image.classes, cls, 1)            \* classes == cls
gt_mask == MaskIndices(image.gt_classes, cls, 1)          \* gt_classes == cls
cls_bboxes == Take(image.bboxes, cls_mask)                \* line 230
cls_scores == Take(image.scores, cls_mask)                \* line 231
cls_gt_bboxes == Take(image.gt_bboxes, gt_mask)           \* line 232
num_gt == Len(cls_gt_bboxes)                              \* line 234
ious == bbox_overlaps(cls_bboxes, cls_gt_bboxes)          \* line 249

Zeros(n) == [k \in 1..n |-> 0]                            \* np.zeros(n)

\* The loop headers of lines 219 and 229: the (image, class) pair that follows
\* the current one, and "ap" once the last pair is done.
LastClassOfImage == cls + 1 >= num_classes
NextCls == IF LastClassOfImage THEN 0 ELSE cls + 1
NextIdx == IF LastClassOfImage THEN idx + 1 ELSE idx
NextPc == IF NextIdx > num_batches THEN "ap" ELSE "images"

Advance ==
    /\ cls' = NextCls
    /\ idx' = NextIdx
    /\ pc' = NextPc

\* Line 244 and line 262: the pair appended for one (class, image).  The labels
\* are the array tp_fp_labels as the greedy loop filled it, indexed by the
\* detection's position in cls_bboxes; the scores are reordered by sorted_indices.
AppendedPair(labels, scores, indices) == << labels, Take(scores, indices) >>

\* IsTruePositive without line 256: a ground truth can be claimed again.
IsTruePositiveIgnoringClaims(row, detected) ==
    LET gt_match == ArgMax(row)
    IN  row[gt_match] >= iou_threshold

\* IsTruePositive with > for the >= of line 254.
IsTruePositiveAboveThreshold(row, detected) ==
    LET gt_match == ArgMax(row)
    IN  row[gt_match] > iou_threshold /\ detected[gt_match] = 0

\* Lines 253-256: whether the detection with this row of ious is a true positive.
IsTruePositive(row, detected) ==
    LET gt_match == ArgMax(row)
    IN  row[gt_match] >= iou_threshold /\ detected[gt_match] = 0

(***************************************************************************)
(* Lines 230-246 for a class with no ground truth in the image: every      *)
(* detection is a false positive.                                          *)
(***************************************************************************)
ClassNoGT ==
    /\ pc = "images"
    /\ num_gt = 0
    /\ \E si \in ArgsortDesc(cls_scores) :
        /\ sorted_indices' = si
        /\ tp_fp_labels' = Zeros(Len(si))
        /\ tp_fp_labels_by_class' =
              [tp_fp_labels_by_class EXCEPT
                  ![cls] = Append(@, AppendedPair(Zeros(Len(si)), cls_scores, si))]
    /\ is_detected' = Zeros(0)
    /\ pos' = 1
    /\ Advance
    /\ UNCHANGED << returned, output_per_batch, num_classes, num_examples_per_class,
                    true_positives, ap_terms, ap_per_class, mean_ap, error >>

(***************************************************************************)
(* Lines 230-239 and 249 for a class with ground truth in the image.       *)
(***************************************************************************)
ClassBegin ==
    /\ pc = "images"
    /\ num_gt > 0
    /\ num_examples_per_class' = [num_examples_per_class EXCEPT ![cls] = @ + num_gt]
    /\ \E si \in ArgsortDesc(cls_scores) :
        /\ sorted_indices' = si
        /\ tp_fp_labels' = Zeros(Len(si))
    /\ is_detected' = Zeros(num_gt)
    /\ pos' = 1
    /\ pc' = "match"
    /\ UNCHANGED << returned, output_per_batch, num_classes, idx, cls, tp_fp_labels_by_class,
                    true_positives, ap_terms, ap_per_class, mean_ap, error >>

(***************************************************************************)
(* One iteration of the greedy loop, lines 252-259.                        *)
(***************************************************************************)
MatchStep ==
    /\ pc = "match"
    /\ pos <= Len(sorted_indices)
    /\ LET bbox_idx == sorted_indices[pos]
           gt_match == ArgMax(ious[bbox_idx])
       IN  IF IsTruePositive(ious[bbox_idx], is_detected)
           THEN /\ tp_fp_labels' = [tp_fp_labels EXCEPT ![bbox_idx] = 1]
                /\ is_detected' = [is_detected EXCEPT ![gt_match] = 1]
           ELSE UNCHANGED << tp_fp_labels, is_detected >>
    /\ pos' = pos + 1
    /\ UNCHANGED << returned, output_per_batch, num_classes, pc, idx, cls, tp_fp_labels_by_class,
                    num_examples_per_class, sorted_indices, true_positives, ap_terms,
                    ap_per_class, mean_ap, error >>

(***************************************************************************)
(* The end of the greedy loop: lines 261-263, then the next (image, class).*)
(***************************************************************************)
ClassEnd ==
    /\ pc = "match"
    /\ pos > Len(sorted_indices)
    /\ tp_fp_labels_by_class' =
          [tp_fp_labels_by_class EXCEPT
              ![cls] = Append(@, AppendedPair(tp_fp_labels, cls_scores, sorted_indices))]
    /\ Advance
    /\ UNCHANGED << returned, output_per_batch, num_classes, num_examples_per_class,
                    sorted_indices, pos, is_detected, tp_fp_labels, true_positives,
                    ap_terms, ap_per_class, mean_ap, error >>

(***************************************************************************)
(* Average precision of one class, lines 268-302.                          *)
(***************************************************************************)
\* Lines 272-274: the labels and the scores of the class over all images.
FlatLabels(c) ==
    Concatenate([k \in 1..Len(tp_fp_labels_by_class[c]) |-> tp_fp_labels_by_class[c][k][1]])
FlatScores(c) ==
    Concatenate([k \in 1..Len(tp_fp_labels_by_class[c]) |-> tp_fp_labels_by_class[c][k][2]])

\* Lines 279-282.
FalsePositives(tps) == [k \in 1..Len(tps) |-> 1 - tps[k]]
CumTruePositives(tps) == CumSum(tps)
CumFalsePositives(tps) == CumSum(FalsePositives(tps))

\* Lines 285-288: precision at rank k.
Precision(tps, k) ==
    Rat(CumTruePositives(tps)[k], CumTruePositives(tps)[k] + CumFalsePositives(tps)[k])

\* The i-th value of np.linspace(0, 1, 11) is the double i * 0.1 (the last one is
\* 1.0).  For i = 3, 6 and 7 that double lies just above i/10: 0.30000000000000004,
\* 0.6000000000000001, 0.7000000000000001; the others are the doubles nearest i/10.
FloatAbove == {3, 6, 7}

\* Line 284 with lines 295 and 299: recall = tp / num_examples compared with the
\* i-th threshold.  With num_examples = 0 recall is nan and no comparison holds.
RecallGE(tp, num_examples, i) ==
    /\ num_examples > 0
    /\ IF i \in FloatAbove THEN 10 * tp > i * num_examples
                           ELSE 10 * tp >= i * num_examples
RecallGT(tp, num_examples, i) ==
    /\ num_examples > 0
    /\ 10 * tp > i * num_examples

\* Line 295: np.any(recall >= t).
AnyRecallGE(tps, num_examples, i) ==
    \E k \in 1..Len(tps) : RecallGE(CumTruePositives(tps)[k], num_examples, i)

\* Line 299: the ranks selected by recall > t.
RanksAbove(tps, num_examples, i) ==
    { k \in 1..Len(tps) : RecallGT(CumTruePositives(tps)[k], num_examples, i) }

\* Line 299: np.max of the selected precisions.
MaxPrecision(tps, ranks) ==
    LET ps == { Precision(tps, k) : k \in ranks }
    IN  CHOOSE m \in ps : \A x \in ps : RatLeq(x, m)

\* Lines 295-300 for the i-th threshold: the loop skips it, adds prec / 11, or
\* np.max raises ValueError on the empty selection.
Term(tps, num_examples, i) ==
    IF ~AnyRecallGE(tps, num_examples, i)
    THEN [op |-> "skip", prec |-> RatZero]
    ELSE IF RanksAbove(tps, num_examples, i) = {}
    THEN [op |-> "raise", prec |-> RatZero]
    ELSE [op |-> "add", prec |-> MaxPrecision(tps, RanksAbove(tps, num_examples, i))]

Terms(tps, num_examples) ==
    [j \in 1..NumRecallPoints |-> Term(tps, num_examples, j - 1)]

Raises(terms) == \E j \in 1..Len(terms) : terms[j].op = "raise"
FirstRaise(terms) ==
    CHOOSE j \in 1..Len(terms) :
        /\ terms[j].op = "raise"
        /\ \A k \in 1..(j - 1) : terms[k].op # "raise"

\* Lines 293-300: ap = 0, then ap += prec / 11 for each threshold that adds.
RECURSIVE SumTerms(_, _)
SumTerms(terms, j) ==
    IF j = 0 THEN RatZero
    ELSE IF terms[j].op = "add"
    THEN RatAdd(SumTerms(terms, j - 1),
                Rat(terms[j].prec[1], terms[j].prec[2] * NumRecallPoints))
    ELSE SumTerms(terms, j - 1)

\* Line 272: zip(*tp_fp_labels) of an empty list yields nothing to unpack into
\* labels, scores: ValueError.
ClassAPUnpackError ==
    /\ pc = "ap"
    /\ tp_fp_labels_by_class[cls] = <<>>
    /\ pc' = "error"
    /\ error' = "ValueError"
    /\ UNCHANGED << returned, output_per_batch, num_classes, idx, cls, tp_fp_labels_by_class,
                    num_examples_per_class, sorted_indices, pos, is_detected,
                    tp_fp_labels, true_positives, ap_terms, ap_per_class, mean_ap >>

\* Lines 268-299 when np.max raises at some threshold.
ClassAPMaxError ==
    /\ pc = "ap"
    /\ tp_fp_labels_by_class[cls] # <<>>
    /\ \E si \in ArgsortDesc(FlatScores(cls)) :
        LET tps == Take(FlatLabels(cls), si)
            terms == Terms(tps, num_examples_per_class[cls])
        IN  /\ Raises(terms)
            /\ true_positives' = tps
            /\ ap_terms' = SubSeq(terms, 1, FirstRaise(terms))
    /\ pc' = "error"
    /\ error' = "ValueError"
    /\ UNCHANGED << returned, output_per_batch, num_classes, idx, cls, tp_fp_labels_by_class,
                    num_examples_per_class, sorted_indices, pos, is_detected,
                    tp_fp_labels, ap_per_class, mean_ap >>

\* Lines 268-302 when the integration completes.
ClassAP ==
    /\ pc = "ap"
    /\ tp_fp_labels_by_class[cls] # <<>>
    /\ \E si \in ArgsortDesc(FlatScores(cls)) :
        LET tps == Take(FlatLabels(cls), si)
            terms == Terms(tps, num_examples_per_class[cls])
        IN  /\ ~Raises(terms)
            /\ true_positives' = tps
            /\ ap_terms' = terms
            /\ ap_per_class' = [ap_per_class EXCEPT ![cls] = SumTerms(terms, Len(terms))]
    /\ cls' = cls + 1
    /\ pc' = IF cls + 1 < num_classes THEN "ap" ELSE "mean"
    /\ UNCHANGED << returned, output_per_batch, num_classes, idx, tp_fp_labels_by_class,
                    num_examples_per_class, sorted_indices, pos, is_detected,
                    tp_fp_labels, mean_ap, error >>

\* Line 305: np.mean(ap_per_class).
RECURSIVE SumAP(_, _)
SumAP(ap, n) == IF n = 0 THEN RatZero ELSE RatAdd(SumAP(ap, n - 1), ap[n - 1])

\* The mean over the classes of positive AP only.
MeanOfPositive(ap, n) ==
    LET s == SumAP(ap, n)
        m == Cardinality({ c \in 0..(n - 1) : ap[c] # RatZero })
    IN  IF m = 0 THEN RatZero ELSE Rat(s[1], s[2] * m)

Mean(ap, n) == LET s == SumAP(ap, n) IN Rat(s[1], s[2] * n)

MeanAP ==
    /\ pc = "mean"
    /\ mean_ap' = Mean(ap_per_class, num_classes)
    /\ pc' = "embed"
    /\ UNCHANGED << returned, output_per_batch, num_classes, idx, cls, tp_fp_labels_by_class,
                    num_examples_per_class, sorted_indices, pos, is_detected,
                    tp_fp_labels, true_positives, ap_terms, ap_per_class, error >>

(***************************************************************************)
(* Line 307, the last line of the function, reached by every call that has *)
(* not raised: "from IPython import embed; embed(display_banner=False)".   *)
(* Whether IPython can be imported is a fact of the installation, not of   *)
(* the source, so both outcomes are possible.  The shell reads stdin and   *)
(* may wait there for ever (the call then stays in pc = "embed"); it sees  *)
(* the locals mean_ap and ap_per_class but the function has no return      *)
(* statement, so once the shell is left the call returns None.             *)
(***************************************************************************)
\* IPython is not installed: the import raises ModuleNotFoundError.
EmbedImportError ==
    /\ pc = "embed"
    /\ pc' = "error"
    /\ error' = "ModuleNotFoundError"
    /\ UNCHANGED << returned, output_per_batch, num_classes, idx, cls,
                    tp_fp_labels_by_class, num_examples_per_class, sorted_indices, pos,
                    is_detected, tp_fp_labels, true_positives, ap_terms, ap_per_class,
                    mean_ap >>

\* The shell is left: the function falls off its end and returns None.
EmbedReturn ==
    /\ pc = "embed"
    /\ pc' = "done"
    /\ returned' = "None"
    /\ UNCHANGED << output_per_batch, num_classes, idx, cls, tp_fp_labels_by_class,
                    num_examples_per_class, sorted_indices, pos, is_detected,
                    tp_fp_labels, true_positives, ap_terms, ap_per_class, mean_ap,
                    error >>

Next ==
    \/ ClassNoGT
    \/ ClassBegin
    \/ MatchStep
    \/ ClassEnd
    \/ ClassAPUnpackError
    \/ ClassAPMaxError
    \/ ClassAP
    \/ MeanAP
    \/ EmbedImportError
    \/ EmbedReturn

Spec == Init /\ [][Next]_vars

(***************************************************************************)
(* Vocabulary of the properties.                                           *)
(***************************************************************************)
\* The AP loop has stored the AP of class c / has raised while computing it.
Integrated(c) ==
    /\ cls > c
    /\ \/ pc \in {"ap", "mean", "embed", "done"}
       \/ pc = "error" /\ error = "ModuleNotFoundError"
Failed(c) == pc = "error" /\ error = "ValueError" /\ cls = c

\* Line 305 has run: mean_ap holds the mean.  The value stays a local of the
\* call: line 307 follows, and the call returns None or raises there.
MeanComputed ==
    \/ pc \in {"embed", "done"}
    \/ pc = "error" /\ error = "ModuleNotFoundError"

\* The class whose integration (lines 293-300) ran last, once one has run.
IntegrationRan == ap_terms # <<>>
LastAPCls == IF pc = "error" /\ error = "ValueError" THEN cls ELSE cls - 1

\* The state right after lines 243-245 or 261-263 appended the pair of one
\* (class, image): the loop variables have moved on, sorted_indices and
\* tp_fp_labels are still those of that pair.
JustAppended ==
    \/ pc = "images" /\ (idx > 1 \/ cls > 0)
    \/ pc = "ap" /\ cls = 0 /\ num_batches > 0
PrevCls == IF cls = 0 THEN num_classes - 1 ELSE cls - 1
PrevIdx == IF pc = "ap" THEN num_batches ELSE IF cls = 0 THEN idx - 1 ELSE idx
PrevScores ==
    Take(output_per_batch[PrevIdx].scores,
         MaskIndices(output_per_batch[PrevIdx].classes, PrevCls, 1))
LastPair == tp_fp_labels_by_class[PrevCls][Len(tp_fp_labels_by_class[PrevCls])]

\* Detections and ground truths of class c in image i.
DetBoxesOf(i, c) ==
    Take(output_per_batch[i].bboxes, MaskIndices(output_per_batch[i].classes, c, 1))
GTBoxesOf(i, c) ==
    Take(output_per_batch[i].gt_bboxes, MaskIndices(output_per_batch[i].gt_classes, c, 1))
TotalDets(c) == SumSeq([i \in 1..num_batches |-> Len(DetBoxesOf(i, c))])
TotalGT(c) == SumSeq([i \in 1..num_batches |-> Len(GTBoxesOf(i, c))])

(***************************************************************************)
(* C1: the pair appended for a (class, image) is aligned: its k-th label   *)
(* is the label the greedy loop gave the detection sorted_indices[k], whose*)
(* score is the k-th score of the pair, and the scores descend.  Stated for*)
(* detections of pairwise different scores, where "the detection whose     *)
(* score is the k-th score" is one detection whatever the sort does with   *)
(* equal scores.                                                           *)
(***************************************************************************)
DistinctScores ==
    \A a, b \in 1..Len(PrevScores) : a # b => PrevScores[a] # PrevScores[b]

C1_LabelsAlignedWithScores ==
    (JustAppended /\ DistinctScores) =>
        /\ Len(LastPair[1]) = Len(sorted_indices)
        /\ Len(LastPair[2]) = Len(sorted_indices)
        /\ \A k \in 1..Len(sorted_indices) :
              /\ LastPair[2][k] = PrevScores[sorted_indices[k]]
              /\ LastPair[1][k] = tp_fp_labels[sorted_indices[k]]
        /\ \A k \in 1..(Len(sorted_indices) - 1) : LastPair[2][k] >= LastPair[2][k + 1]

(***************************************************************************)
(* C2: at each of the 11 thresholds the integration adds the maximum       *)
(* precision over the ranks whose recall is strictly greater than t,       *)
(* divided by 11; a threshold no recall exceeds contributes 0 and the loop *)
(* goes on to the end without raising.                                     *)
(***************************************************************************)
C2_ThresholdContributions ==
    IntegrationRan =>
        LET n == num_examples_per_class[LastAPCls]
            cum == CumSum(true_positives)
            above(i) == { k \in 1..Len(true_positives) : n > 0 /\ 10 * cum[k] > i * n }
        IN  /\ ~Failed(LastAPCls)
            /\ Len(ap_terms) = NumRecallPoints
            /\ \A i \in 0..(Len(ap_terms) - 1) :
                  IF above(i) # {}
                  THEN /\ ap_terms[i + 1].op = "add"
                       /\ \A k \in above(i) : RatLeq(Rat(cum[k], k), ap_terms[i + 1].prec)
                       /\ \E k \in above(i) : Rat(cum[k], k) = ap_terms[i + 1].prec
                  ELSE ap_terms[i + 1].op = "skip"

(***************************************************************************)
(* C3: in every state of the greedy loop no ground truth of the (class,    *)
(* image) is claimed by two detections, and the true positives are no more *)
(* than the ground truths marked detected.                                 *)
(***************************************************************************)
ClaimedBy(j) ==
    { b \in 1..Len(tp_fp_labels) : tp_fp_labels[b] = 1 /\ ArgMax(ious[b]) = j }

C3_NoGroundTruthClaimedTwice ==
    pc = "match" =>
        /\ SumSeq(tp_fp_labels) <= SumSeq(is_detected)
        /\ \A j \in 1..num_gt : Cardinality(ClaimedBy(j)) <= 1
        /\ \A j \in 1..num_gt : is_detected[j] = 0 => ClaimedBy(j) = {}

\* Two detections aim at the same ground truth above the threshold; the loop is over.
C3_Witness ==
    /\ pc = "match"
    /\ pos > Len(sorted_indices)
    /\ \E a, b \in 1..Len(tp_fp_labels) :
          /\ a # b
          /\ ArgMax(ious[a]) = ArgMax(ious[b])
          /\ ious[a][ArgMax(ious[a])] >= iou_threshold
          /\ ious[b][ArgMax(ious[b])] >= iou_threshold
          /\ tp_fp_labels[a] = 1
          /\ tp_fp_labels[b] = 0

(***************************************************************************)
(* C4: a class in which every detection matches a distinct ground truth at *)
(* overlap 1.0 and every ground truth is so matched gets AP exactly 1.0,   *)
(* and mAP is 1.0 when it is the only class.                               *)
(***************************************************************************)
PerfectIn(i, c) ==
    LET d == DetBoxesOf(i, c)
        g == GTBoxesOf(i, c)
    IN  /\ Len(d) = Len(g)
        /\ \A a \in 1..Len(d) : \E j \in 1..Len(g) : Overlap(d[a], g[j]) = 10
        /\ \A j \in 1..Len(g) : Cardinality({ a \in 1..Len(d) : Overlap(d[a], g[j]) = 10 }) = 1
PerfectClass(c) ==
    /\ TotalGT(c) > 0
    /\ \A i \in 1..num_batches : PerfectIn(i, c)

C4_PerfectClassHasAPOne ==
    \A c \in Classes :
        PerfectClass(c) =>
            /\ ~Failed(c)
            /\ Integrated(c) => ap_per_class[c] = RatOne
            /\ (MeanComputed /\ num_classes = 1) => mean_ap = RatOne

(***************************************************************************)
(* C5: a class with no ground truth in the whole dataset, or no detection  *)
(* in the whole dataset, or neither (an empty list of images included)     *)
(* never makes the call raise, and its AP is exactly 0.                    *)
(***************************************************************************)
Degenerate(c) == TotalGT(c) = 0 \/ TotalDets(c) = 0

C5_DegenerateClassHasAPZero ==
    \A c \in Classes :
        Degenerate(c) =>
            /\ ~Failed(c)
            /\ Integrated(c) => ap_per_class[c] = RatZero

(***************************************************************************)
(* C6: when a detection or a ground truth carries a class label outside    *)
(* [0, num_classes), the call ends in a validation error before a single   *)
(* detection is matched, and yields no AP and no mAP.                      *)
(***************************************************************************)
Malformed ==
    \E i \in 1..num_batches :
        \/ \E k \in 1..Len(output_per_batch[i].classes) :
              output_per_batch[i].classes[k] \notin Classes
        \/ \E k \in 1..Len(output_per_batch[i].gt_classes) :
              output_per_batch[i].gt_classes[k] \notin Classes

C6_MalformedInputIsRejected ==
    Malformed =>
        /\ pc \notin {"match", "mean", "embed", "done"}
        /\ \A c \in Classes : FlatLabels(c) = <<>>
        /\ pc = "error" => error = "ValidationError"

(***************************************************************************)
(* C7: every AP lies in [0, 1], the mAP lies in [0, 1], and for every class*)
(* the true positives collected so far are no more than its ground truths  *)
(* counted so far, so that recall never exceeds 1.                         *)
(***************************************************************************)
InUnitInterval(x) == RatLeq(RatZero, x) /\ RatLeq(x, RatOne) /\ x[2] > 0

C7_APWithinUnitInterval ==
    /\ \A c \in Classes : InUnitInterval(ap_per_class[c])
    /\ InUnitInterval(mean_ap)
    /\ \A c \in Classes : SumSeq(FlatLabels(c)) <= num_examples_per_class[c]
    /\ IntegrationRan =>
          \A k \in 1..Len(true_positives) :
              CumSum(true_positives)[k] <= num_examples_per_class[LastAPCls]

\* A finished call with an AP strictly between 0 and 1, from two images.
C7_Witness ==
    /\ pc = "done"
    /\ num_batches = 2
    /\ \E c \in Classes : ap_per_class[c] # RatZero /\ ap_per_class[c] # RatOne
    /\ mean_ap # RatZero

(***************************************************************************)
(* C8: the mean_ap that line 305 computes is the sum of the APs of all     *)
(* num_classes classes divided by num_classes; a class without ground      *)
(* truth counts with AP 0.                                                 *)
(***************************************************************************)
RECURSIVE DenProduct(_, _)
DenProduct(ap, n) == IF n = 0 THEN 1 ELSE ap[n - 1][2] * DenProduct(ap, n - 1)
RECURSIVE NumSum(_, _, _)
NumSum(ap, n, p) ==
    IF n = 0 THEN 0 ELSE ap[n - 1][1] * (p \div ap[n - 1][2]) + NumSum(ap, n - 1, p)

C8_MeanOverAllClasses ==
    MeanComputed =>
        LET p == DenProduct(ap_per_class, num_classes)
        IN  /\ mean_ap[1] * p * num_classes = mean_ap[2] * NumSum(ap_per_class, num_classes, p)
            /\ \A c \in Classes : TotalGT(c) = 0 => ap_per_class[c] = RatZero

\* Two classes, one with a positive AP, the other without ground truth.
C8_Witness ==
    /\ pc = "done"
    /\ num_classes = 2
    /\ \E c, e \in Classes :
          /\ c # e
          /\ TotalGT(e) = 0
          /\ ap_per_class[e] = RatZero
          /\ ap_per_class[c] # RatZero
          /\ mean_ap = Rat(ap_per_class[c][1], 2 * ap_per_class[c][2])

(***************************************************************************)
(* C10: the greedy loop takes the detections in descending score order; a  *)
(* detection it has processed is a true positive exactly when its          *)
(* best-overlap ground truth reaches the threshold and no detection        *)
(* processed earlier claimed that ground truth.  Of two detections of      *)
(* different score on the same ground truth the lower one is a false       *)
(* positive, in whatever order the input lists them.                       *)
(***************************************************************************)
BestGT(b) == ArgMax(ious[b])
MeetsThreshold(b) == ious[b][BestGT(b)] >= iou_threshold
ClaimedEarlier(k) ==
    \E m \in 1..(k - 1) :
        /\ BestGT(sorted_indices[m]) = BestGT(sorted_indices[k])
        /\ tp_fp_labels[sorted_indices[m]] = 1

C10_GreedyLabels ==
    pc = "match" =>
        /\ \A k \in 1..(Len(sorted_indices) - 1) :
              cls_scores[sorted_indices[k]] >= cls_scores[sorted_indices[k + 1]]
        /\ \A k \in 1..(pos - 1) :
              tp_fp_labels[sorted_indices[k]] = 1
                  <=> (MeetsThreshold(sorted_indices[k]) /\ ~ClaimedEarlier(k))
        /\ \A k \in pos..Len(sorted_indices) : tp_fp_labels[sorted_indices[k]] = 0
        /\ pos > Len(sorted_indices) =>
              \A a, b \in 1..Len(cls_scores) :
                  (/\ cls_scores[a] > cls_scores[b]
                   /\ BestGT(a) = BestGT(b)
                   /\ MeetsThreshold(a)) => tp_fp_labels[b] = 0

\* The loop is over; a detection is a false positive because its best ground
\* truth was claimed by a higher-scoring detection listed after it in the input,
\* although another ground truth also reaches the threshold for it.
C10_Witness ==
    /\ pc = "match"
    /\ pos > Len(sorted_indices)
    /\ \E a, b \in 1..Len(cls_scores) :
          /\ a < b
          /\ cls_scores[a] < cls_scores[b]
          /\ BestGT(a) = BestGT(b)
          /\ tp_fp_labels[b] = 1
          /\ tp_fp_labels[a] = 0
          /\ \E j \in 1..num_gt : j # BestGT(a) /\ ious[a][j] >= iou_threshold

====
